---- MODULE Spec2Model ----
(***************************************************************************)
(* The podcast action of src/action.py (class playPodcast) together with   *)
(* the process-wide hooks pauseActors / resumeActors.                      *)
(*                                                                         *)
(* Two callers act on the module globals podcastState and podcastPlayer:   *)
(* the dispatch path, which executes run(voice_command) or                 *)
(* wait_for_button(), and the lifecycle path, which executes the hooks     *)
(* pause() and resume().  Every access to a global (a read or write of     *)
(* podcastState, a call on podcastPlayer) is one step, so the two callers  *)
(* interleave between such accesses; the code takes no lock.               *)
(*                                                                         *)
(* A voice command is a sequence of tokens, a word or the blank " ".       *)
(***************************************************************************)
EXTENDS Integers, Sequences, FiniteSets, TLC

VARIABLES
    podcastState,    \* global podcastState
    playerStatus,    \* engine state of podcastPlayer
    playerMedia,     \* podcastPlayer has a media loaded
    pc,              \* position of the dispatch caller
    op,              \* operation the dispatch caller runs or ran last
    voice_command,   \* run's local voice_command
    random_podcast,  \* run's local random_podcast
    number_of_podcasts, \* len(feed.entries) of the fetched feed, -1 before the fetch
    podcast_number,  \* run's local podcast_number, -1 before it is chosen
    podcast_url,     \* global podcast_url
    engineState,     \* run's local state (podcastPlayer.get_state()), -1 before it is read
    pre,             \* podcastState when the dispatch caller entered its operation
    calls,           \* podcastPlayer calls issued by the dispatch caller's operation
    says,            \* number of say() calls of the dispatch caller's operation
    exc,             \* exception that left the dispatch caller's operation
    started,         \* some run has loaded a media into podcastPlayer
    hpc,             \* position of the hook caller
    hop,             \* hook the hook caller runs or ran last
    hread,           \* the hook's local podcastState
    hcalls,          \* podcastPlayer calls issued by the hook
    overlap,         \* the two callers' operations have overlapped
    raceFrom,        \* podcastState when the first of the overlapping operations began
    timeIn,          \* the datetime SpeakTime.run read last
    timeOut,         \* what SpeakTime.to_str made of it
    volIn,           \* what VolumeControl.run met last: change, command results
    volOut           \* what VolumeControl.run did with it

vars == <<podcastState, playerStatus, playerMedia, pc, op, voice_command,
          random_podcast, number_of_podcasts, podcast_number, podcast_url,
          engineState, pre, calls, says, exc, started, hpc, hop, hread,
          hcalls, overlap, raceFrom, timeIn, timeOut, volIn, volOut>>

podcastVars == <<podcastState, playerStatus, playerMedia, pc, op, voice_command,
                 random_podcast, number_of_podcasts, podcast_number, podcast_url,
                 engineState, pre, calls, says, exc, started, hpc, hop, hread,
                 hcalls, overlap, raceFrom>>
simpleVars == <<timeIn, timeOut, volIn, volOut>>

runLocals == <<voice_command, random_podcast, number_of_podcasts,
               podcast_number, podcast_url, engineState>>
hookVars == <<hpc, hop, hread, hcalls>>

----------------------------------------------------------------------------
(* Bounds of the inputs. *)

MaxEntries == 2     \* entries of a fetched feed
MaxLinks == 2       \* links of one entry

None == "None"

----------------------------------------------------------------------------
(* Strings as token sequences: lower(), replace(x, '', 1), strip(), in. *)

Lower(t) ==
    CASE t = "Podcast" -> "podcast"
      [] t = "STOP"    -> "stop"
      [] t = "Twig"    -> "twig"
      [] OTHER         -> t

lower(s) == [i \in DOMAIN s |-> Lower(s[i])]

Contains(s, t) == \E i \in DOMAIN s : s[i] = t

IndexOf(s, t) == CHOOSE i \in DOMAIN s : s[i] = t /\ \A j \in 1..(i-1) : s[j] # t

replace(s, t) ==
    IF Contains(s, t)
    THEN SubSeq(s, 1, IndexOf(s, t) - 1) \o SubSeq(s, IndexOf(s, t) + 1, Len(s))
    ELSE s

RECURSIVE strip(_)
strip(s) ==
    IF s = <<>> THEN s
    ELSE IF Head(s) = " " THEN strip(Tail(s))
    ELSE IF s[Len(s)] = " " THEN strip(SubSeq(s, 1, Len(s) - 1))
    ELSE s

keyword == "podcast"

\* line 279
Normalise(vc) == strip(replace(lower(vc), keyword))

\* lines 307-311
HasRandom(vc) == Contains(vc, "random")
StripRandom(vc) == IF HasRandom(vc) THEN strip(replace(vc, "random")) ELSE vc

\* The utterances the recogniser hands to run.
VoiceCommands ==
    { <<"podcast", " ", "stop">>,
      <<"Podcast", " ", "STOP">>,
      <<"podcast", " ", "off">>,
      <<"podcast", " ", "pause">>,
      <<"podcast", " ", "resume">>,
      <<"podcast", " ", "twig">>,
      <<"podcast", " ", "Twig", " ">>,
      <<"podcast", " ", "random", " ", "twig">>,
      <<"podcast", " ", "tech", " ", "news", " ", "today">>,
      <<"podcast", " ", "tech", " ", "random", " ", "news", " ", "today">>,
      <<"podcast", " ", "unknownshow">>,
      <<"podcast", " ", "random", " ", "unknownshow">>,
      <<"podcast">> }

----------------------------------------------------------------------------
(* The catalog of get_url. *)

urls ==
    ( <<"friday", " ", "night", " ", "comedy">> :> "http://www.bbc.co.uk/programmes/p02pc9pj/episodes/downloads.rss" ) @@
    ( <<"tech", " ", "news", " ", "today">> :> "http://feeds.twit.tv/tnt.xml" ) @@
    ( <<"twig">> :> "http://feeds.twit.tv/twig.xml" ) @@
    ( <<"this", " ", "week", " ", "in", " ", "tech">> :> "http://feeds.twit.tv/twit.xml" ) @@
    ( <<"theory", " ", "of", " ", "everything">> :> "https://www.npr.org/rss/podcast.php?id=510061" ) @@
    ( <<"this", " ", "american", " ", "life">> :> "http://feed.thisamericanlife.org/talpodcast" ) @@
    ( <<"android", " ", "authority">> :> "http://androidauthority.libsyn.com/rss" )

\* urls[podcast_name] raises KeyError
KeyError(podcast_name) == podcast_name \notin DOMAIN urls

----------------------------------------------------------------------------
(* Feeds: what feedparser.parse returns, a sequence of entries, each a     *)
(* sequence of link hrefs.                                                 *)

Hrefs == {"http://cdn/ep.mp3", "http://site/page.html"}

\* ".mp3" in href
HasMp3(href) == href = "http://cdn/ep.mp3"

\* the links of one entry
LinkLists == UNION { [1..n -> Hrefs] : n \in 0..MaxLinks }

\* lines 336-340: the first link whose href holds ".mp3"; podcast_url stays
\* None without one
FirstMp3(links) ==
    IF \E i \in DOMAIN links : HasMp3(links[i])
    THEN links[CHOOSE i \in DOMAIN links :
                 HasMp3(links[i]) /\ \A j \in 1..(i-1) : ~HasMp3(links[j])]
    ELSE None

\* random.randint(0, number_of_podcasts): both ends included
RandInt(lo, hi) == lo..hi

\* line 348
playing == {1, 2, 3, 4}

\* vlc.State: NothingSpecial, Opening, Buffering, Playing, Paused, Stopped,
\* Ended, Error
EngineStates == 0..7

States == {"stopped", "starting", "playing", "paused"}


----------------------------------------------------------------------------
(* podcastPlayer: the engine state after each call of the vlc player.      *)

PlayerStates == {"NothingSpecial", "Playing", "Paused", "Stopped", "Ended", "Error"}

\* podcastPlayer.<call>(): play needs a media, pause toggles, set_media
\* releases what was playing
PlayerAfter(call, status, media) ==
    CASE call = "stop"      -> "Stopped"
      [] call = "play"      -> IF media THEN "Playing" ELSE status
      [] call = "pause"     -> IF status = "Playing" THEN "Paused"
                               ELSE IF status = "Paused" THEN "Playing"
                               ELSE status
      [] call = "set_media" -> "NothingSpecial"
      [] OTHER              -> status

\* podcastPlayer.get_state() one second after play(): the pairs of the
\* engine state then and the code reported; a stream that was playing may
\* still be opening or buffering, or have ended or failed
EngineReports(status) ==
    CASE status = "Playing"        -> {<<"Playing", 1>>, <<"Playing", 2>>, <<"Playing", 3>>,
                                       <<"Ended", 6>>, <<"Error", 7>>}
      [] status = "Paused"         -> {<<"Paused", 4>>}
      [] status = "Stopped"        -> {<<"Stopped", 5>>}
      [] status = "Ended"          -> {<<"Ended", 6>>}
      [] status = "Error"          -> {<<"Error", 7>>}
      [] OTHER                     -> {<<"NothingSpecial", 0>>}

----------------------------------------------------------------------------
(* The values the code writes. *)

\* line 264: the player call of stop()
StopCallMut == "pause"
StopCall == "stop"

\* line 265: set_state("stopped") in stop()
StopStateMut(s) == s
StopState(s) == "stopped"

\* line 313: set_state("stopped") before the lookup
ResetStateMut(s) == s
ResetState(s) == "stopped"

\* line 322: say("Sorry podcast not found")
SayNotFoundMut(n) == n
SayNotFound(n) == n + 1

\* line 363: if podcastState == "playing"
PauseGuard(s) == s = "playing"

\* line 372: if podcastState == "playing"
ResumeGuardMut(s) == s = "paused"
ResumeGuard(s) == s = "playing"

----------------------------------------------------------------------------
(* SpeakTime.to_str.  A phrase is the sequence of the pieces the format    *)
(* string and its arguments contribute.                                    *)

HRS_TEXT == <<"midnight", "one", "two", "three", "four", "five", "six",
              "seven", "eight", "nine", "ten", "eleven", "twelve">>
MINS_TEXT == <<"five", "ten", "quarter", "twenty", "twenty-five", "half">>

\* list[i] of Python: from 0, a negative i counts from the end
PyIndex(list, i) ==
    IF 0 <= i /\ i < Len(list) THEN list[i + 1]
    ELSE IF -Len(list) <= i /\ i < 0 THEN list[Len(list) + i + 1]
    ELSE "IndexError"

\* line 107
minute_roundedMut(minute) == minute \div 5
minute_rounded(minute) == (minute + 2) \div 5

\* line 108
minute_is_inverted(minute) == minute_rounded(minute) > 6

\* line 111
NextHourMut(hour) == hour
NextHour(hour) == (hour + 1) % 24

\* lines 114-115
Hour12(hour) == IF hour > 12 THEN hour - 12 ELSE hour

\* timeOut before SpeakTime has run
NoTime == [phrase |-> <<>>, hrs |-> -1, mins |-> -1]

\* lines 103-124; hrs and mins are the indexes looked up in HRS_TEXT and
\* MINS_TEXT, -1 without a lookup
to_str(dt) ==
    LET inverted == minute_is_inverted(dt.minute)
        rounded == IF inverted THEN 12 - minute_rounded(dt.minute)
                   ELSE minute_rounded(dt.minute)
        hour == Hour12(IF inverted THEN NextHour(dt.hour) ELSE dt.hour)
    IN  IF rounded = 0
        THEN IF hour = 0
             THEN [phrase |-> <<"It is midnight.">>, hrs |-> -1, mins |-> -1]
             ELSE [phrase |-> <<"It is ", PyIndex(HRS_TEXT, hour), " o'clock.">>,
                   hrs |-> hour, mins |-> -1]
        ELSE IF inverted
        THEN [phrase |-> <<"It is ", PyIndex(MINS_TEXT, rounded - 1), " to ",
                           PyIndex(HRS_TEXT, hour), ".">>,
              hrs |-> hour, mins |-> rounded - 1]
        ELSE [phrase |-> <<"It is ", PyIndex(MINS_TEXT, rounded - 1), " past ",
                           PyIndex(HRS_TEXT, hour), ".">>,
              hrs |-> hour, mins |-> rounded - 1]

\* datetime.datetime.now()
DateTimes == [hour : 0..23, minute : 0..59]

----------------------------------------------------------------------------
(* VolumeControl.run.  The output of the GET_VOLUME pipeline is a sequence *)
(* of characters; "x" stands for any character that is no digit or sign.   *)

MaxDigits == 3      \* characters of the volume query's output

Digits == {"0", "1", "2", "3", "4", "5", "6", "7", "8", "9"}
Chars == Digits \cup {"-", "x"}

\* what check_output(GET_VOLUME).strip() returns
Outputs == UNION { [1..n -> Chars] : n \in 0..MaxDigits }

\* exit statuses of a shell command: success, failure
ExitStatuses == {0, 1}

\* make_actor: volume up, volume down, max volume
Changes == {10, -10, 100}

DigitValue(c) ==
    CASE c = "0" -> 0 [] c = "1" -> 1 [] c = "2" -> 2 [] c = "3" -> 3
      [] c = "4" -> 4 [] c = "5" -> 5 [] c = "6" -> 6 [] c = "7" -> 7
      [] c = "8" -> 8 [] OTHER -> 9

RECURSIVE Value(_)
Value(ds) ==
    IF ds = <<>> THEN 0
    ELSE Value(SubSeq(ds, 1, Len(ds) - 1)) * 10 + DigitValue(ds[Len(ds)])

Unsigned(res) == IF res # <<>> /\ res[1] = "-" THEN Tail(res) ELSE res

\* int(res) raises ValueError unless res is digits after an optional sign
ValueError(res) ==
    Unsigned(res) = <<>> \/ \E i \in DOMAIN Unsigned(res) : Unsigned(res)[i] \notin Digits

\* int(res)
int(res) ==
    IF res # <<>> /\ res[1] = "-" THEN 0 - Value(Unsigned(res)) ELSE Value(Unsigned(res))

max(a, b) == IF a >= b THEN a ELSE b
min(a, b) == IF a <= b THEN a ELSE b

\* line 175
ClampMut(vol) == max(0, vol)
Clamp(vol) == max(0, min(100, vol))

\* volOut before VolumeControl has run
NoVolume ==
    [done |-> FALSE, exc |-> "none", parsed |-> FALSE, current |-> 0,
     set_called |-> FALSE, vol |-> -1, says |-> 0, spoken |-> -1]

\* lines 171-179: check_output raises CalledProcessError on a non-zero
\* exit status, outside the try; ValueError of int(res) is caught and
\* logged; subprocess.call returns the exit status of SET_VOLUME and does
\* not raise on it; vol is the volume set, spoken the volume said
VolumeControl_run(in) ==
    IF in.status # 0
    THEN [NoVolume EXCEPT !.done = TRUE, !.exc = "CalledProcessError"]
    ELSE IF ValueError(in.res)
    THEN [NoVolume EXCEPT !.done = TRUE]
    ELSE [done |-> TRUE, exc |-> "none", parsed |-> TRUE, current |-> int(in.res),
          set_called |-> TRUE, vol |-> Clamp(int(in.res) + in.change),
          says |-> 1, spoken |-> Clamp(int(in.res) + in.change)]

VolumeInputs ==
    [change : Changes, status : ExitStatuses, res : Outputs, set_status : ExitStatuses]

----------------------------------------------------------------------------

InitPodcast ==
    /\ podcastState = "stopped"          \* __init__, line 240
    /\ playerStatus = "NothingSpecial"   \* media_player_new(), line 239
    /\ playerMedia = FALSE
    /\ pc = "idle"
    /\ op = "none"
    /\ voice_command = <<>>
    /\ random_podcast = FALSE
    /\ number_of_podcasts = -1
    /\ podcast_number = -1
    /\ podcast_url = "unset"
    /\ engineState = -1
    /\ pre = "stopped"
    /\ calls = <<>>
    /\ says = 0
    /\ exc = "none"
    /\ started = FALSE
    /\ hpc = "idle"
    /\ hop = "none"
    /\ hread = "stopped"
    /\ hcalls = <<>>
    /\ overlap = FALSE
    /\ raceFrom = "stopped"

\* no simple action has run
InitTimeIdle ==
    /\ timeIn = [hour |-> 0, minute |-> 0]
    /\ timeOut = NoTime

InitVolumeIdle ==
    /\ volIn = [change |-> 10, status |-> 0, res |-> <<>>, set_status |-> 0]
    /\ volOut = NoVolume

Init == InitPodcast /\ InitTimeIdle /\ InitVolumeIdle

\* Entry of an operation of the dispatch caller.
Enter ==
    /\ pre' = podcastState
    /\ calls' = <<>>
    /\ says' = 0
    /\ exc' = "none"
    /\ overlap' = (hpc # "idle")
    /\ raceFrom' = IF hpc = "idle" THEN podcastState ELSE raceFrom

\* A call on podcastPlayer by the dispatch caller.
Call(c) ==
    /\ calls' = Append(calls, c)
    /\ playerStatus' = PlayerAfter(c, playerStatus, playerMedia)

\* run, lines 277-311: the command is normalised and the branch chosen
RunBegin ==
    /\ pc = "idle"
    /\ \E vc \in VoiceCommands :
         LET cmd == Normalise(vc) IN
           /\ Enter
           /\ number_of_podcasts' = -1
           /\ podcast_number' = -1
           /\ engineState' = -1
           /\ IF cmd = <<"stop">> \/ cmd = <<"off">>
              THEN /\ op' = "stop" /\ pc' = "stop_call"
                   /\ voice_command' = cmd /\ random_podcast' = FALSE
              ELSE IF cmd = <<"pause">>
              THEN /\ op' = "pause" /\ pc' = "pause_set"
                   /\ voice_command' = cmd /\ random_podcast' = FALSE
              ELSE IF cmd = <<"resume">>
              THEN /\ op' = "resume" /\ pc' = "resume_play"
                   /\ voice_command' = cmd /\ random_podcast' = FALSE
              ELSE /\ op' = "name" /\ pc' = "reset"
                   /\ random_podcast' = HasRandom(cmd)
                   /\ voice_command' = StripRandom(cmd)
    /\ UNCHANGED simpleVars
    /\ UNCHANGED <<podcastState, playerStatus, playerMedia, podcast_url, started, hookVars>>

\* stop(), line 264
StopPlayer ==
    /\ pc = "stop_call"
    /\ Call(StopCall)
    /\ pc' = "stop_set"
    /\ UNCHANGED simpleVars
    /\ UNCHANGED <<podcastState, playerMedia, op, runLocals, pre, says, exc,
                   started, hookVars, overlap, raceFrom>>

\* stop(), line 265, and the return to the caller
StopSet ==
    /\ pc = "stop_set"
    /\ podcastState' = StopState(podcastState)
    /\ pc' = "idle"
    /\ UNCHANGED simpleVars
    /\ UNCHANGED <<playerStatus, playerMedia, op, runLocals, pre, calls, says,
                   exc, started, hookVars, overlap, raceFrom>>

\* run, lines 287-295
PauseSet ==
    /\ pc = "pause_set"
    /\ podcastState' = "paused"
    /\ pc' = "idle"
    /\ UNCHANGED simpleVars
    /\ UNCHANGED <<playerStatus, playerMedia, op, runLocals, pre, calls, says,
                   exc, started, hookVars, overlap, raceFrom>>

\* run, line 300
ResumePlay ==
    /\ pc = "resume_play"
    /\ Call("play")
    /\ pc' = "resume_set"
    /\ UNCHANGED simpleVars
    /\ UNCHANGED <<podcastState, playerMedia, op, runLocals, pre, says, exc,
                   started, hookVars, overlap, raceFrom>>

\* run, lines 301-305
ResumeSet ==
    /\ pc = "resume_set"
    /\ podcastState' = "playing"
    /\ pc' = "idle"
    /\ UNCHANGED simpleVars
    /\ UNCHANGED <<playerStatus, playerMedia, op, runLocals, pre, calls, says,
                   exc, started, hookVars, overlap, raceFrom>>

\* run, lines 313-315
Reset ==
    /\ pc = "reset"
    /\ podcastState' = ResetState(podcastState)
    /\ podcast_url' = None
    /\ pc' = "lookup"
    /\ UNCHANGED simpleVars
    /\ UNCHANGED <<playerStatus, playerMedia, op, voice_command, random_podcast,
                   number_of_podcasts, podcast_number, engineState, pre, calls,
                   says, exc, started, hookVars, overlap, raceFrom>>

\* run, lines 319-324
Lookup ==
    /\ pc = "lookup"
    /\ IF KeyError(voice_command)
       THEN /\ says' = SayNotFound(says)
            /\ pc' = "idle"
       ELSE /\ says' = says
            /\ pc' = "fetch"
    /\ UNCHANGED simpleVars
    /\ UNCHANGED <<podcastState, playerStatus, playerMedia, op, runLocals, pre,
                   calls, exc, started, hookVars, overlap, raceFrom>>

\* run, lines 326-342: the feed is fetched, the episode chosen and its
\* links scanned. Of the feed run reads len(feed.entries) and the links of
\* the chosen entry; feed.entries[podcast_number] raises IndexError past
\* the end, and "podcast url: " + None raises TypeError
Fetch ==
    /\ pc = "fetch"
    /\ \E entries \in 0..MaxEntries, links \in LinkLists :
         \E n \in (IF random_podcast THEN RandInt(0, entries) ELSE {0}) :
           /\ number_of_podcasts' = entries
           /\ podcast_number' = n
           /\ IF n >= entries
              THEN /\ exc' = "IndexError"
                   /\ podcast_url' = podcast_url
                   /\ pc' = "idle"
              ELSE /\ podcast_url' = FirstMp3(links)
                   /\ IF FirstMp3(links) = None
                      THEN /\ exc' = "TypeError"
                           /\ pc' = "idle"
                      ELSE /\ exc' = exc
                           /\ pc' = "load"
    /\ UNCHANGED simpleVars
    /\ UNCHANGED <<podcastState, playerStatus, playerMedia, op, voice_command,
                   random_podcast, engineState, pre, calls, says, started,
                   hookVars, overlap, raceFrom>>

\* run, lines 344-345
Load ==
    /\ pc = "load"
    /\ Call("set_media")
    /\ playerMedia' = TRUE
    /\ started' = TRUE
    /\ pc' = "play"
    /\ UNCHANGED simpleVars
    /\ UNCHANGED <<podcastState, op, runLocals, pre, says, exc, hookVars,
                   overlap, raceFrom>>

\* run, line 346
Play ==
    /\ pc = "play"
    /\ Call("play")
    /\ pc' = "query"
    /\ UNCHANGED simpleVars
    /\ UNCHANGED <<podcastState, playerMedia, op, runLocals, pre, says, exc,
                   started, hookVars, overlap, raceFrom>>

\* run, lines 347-349
Query ==
    /\ pc = "query"
    /\ \E r \in EngineReports(playerStatus) :
         /\ playerStatus' = r[1]
         /\ engineState' = r[2]
    /\ calls' = Append(calls, "get_state")
    /\ pc' = "starting_set"
    /\ UNCHANGED simpleVars
    /\ UNCHANGED <<podcastState, playerMedia, op, voice_command, random_podcast,
                   number_of_podcasts, podcast_number, podcast_url, pre, says,
                   exc, started, hookVars, overlap, raceFrom>>

\* run, line 350
StartingSet ==
    /\ pc = "starting_set"
    /\ podcastState' = "starting"
    /\ pc' = "check"
    /\ UNCHANGED simpleVars
    /\ UNCHANGED <<playerStatus, playerMedia, op, runLocals, pre, calls, says,
                   exc, started, hookVars, overlap, raceFrom>>

\* run, lines 351-355: on a code outside playing the argument of say,
\* "Sorry error playing " + podcast, names the undefined podcast and raises
\* NameError before say is called; lines 354-355 are then not reached
Check ==
    /\ pc = "check"
    /\ IF engineState \notin playing
       THEN /\ exc' = "NameError"
            /\ podcastState' = podcastState
       ELSE /\ exc' = exc
            /\ podcastState' = "playing"
    /\ pc' = "idle"
    /\ UNCHANGED simpleVars
    /\ UNCHANGED <<playerStatus, playerMedia, op, runLocals, pre, calls, says,
                   started, hookVars, overlap, raceFrom>>

\* wait_for_button, lines 267-270
WaitBegin ==
    /\ pc = "idle"
    /\ Enter
    /\ op' = "button"
    /\ pc' = "poll"
    /\ UNCHANGED simpleVars
    /\ UNCHANGED <<podcastState, playerStatus, playerMedia, runLocals, started, hookVars>>

\* wait_for_button, lines 272-275: on a true pin stop() is called and the
\* loop left, otherwise the loop sleeps and polls again
AfterPollMut(pin) == IF pin THEN "stop_set" ELSE "poll"
AfterPoll(pin) == IF pin THEN "stop_call" ELSE "poll"

\* wait_for_button, lines 271-275: gpio.input(23), then stop() or sleep
Poll ==
    /\ pc = "poll"
    /\ \E pin \in BOOLEAN : pc' = AfterPoll(pin)
    /\ UNCHANGED simpleVars
    /\ UNCHANGED <<podcastState, playerStatus, playerMedia, op, runLocals, pre,
                   calls, says, exc, started, hookVars, overlap, raceFrom>>

\* pauseActors / resumeActors: pause() or resume() reads podcastState
HookBegin ==
    /\ hpc = "idle"
    /\ \E h \in {"pause", "resume"} : hop' = h
    /\ hread' = podcastState
    /\ hcalls' = <<>>
    /\ hpc' = "test"
    /\ overlap' = (pc # "idle")
    /\ raceFrom' = IF pc = "idle" THEN podcastState ELSE raceFrom
    /\ UNCHANGED simpleVars
    /\ UNCHANGED <<podcastState, playerStatus, playerMedia, pc, op, runLocals,
                   pre, calls, says, exc, started>>

\* pause(), lines 363-367, and resume(), lines 372-373
HookAct ==
    /\ hpc = "test"
    /\ IF hop = "pause" /\ PauseGuard(hread)
       THEN /\ hcalls' = Append(hcalls, "pause")
            /\ playerStatus' = PlayerAfter("pause", playerStatus, playerMedia)
       ELSE IF hop = "resume" /\ ResumeGuard(hread)
       THEN /\ hcalls' = Append(hcalls, "play")
            /\ playerStatus' = PlayerAfter("play", playerStatus, playerMedia)
       ELSE /\ hcalls' = hcalls
            /\ playerStatus' = playerStatus
    /\ hpc' = "idle"
    /\ UNCHANGED simpleVars
    /\ UNCHANGED <<podcastState, playerMedia, pc, op, runLocals, pre, calls,
                   says, exc, started, hop, hread, overlap, raceFrom>>

Next ==
    \/ RunBegin
    \/ StopPlayer
    \/ StopSet
    \/ PauseSet
    \/ ResumePlay
    \/ ResumeSet
    \/ Reset
    \/ Lookup
    \/ Fetch
    \/ Load
    \/ Play
    \/ Query
    \/ StartingSet
    \/ Check
    \/ WaitBegin
    \/ Poll
    \/ HookBegin
    \/ HookAct

Spec == Init /\ [][Next]_vars

----------------------------------------------------------------------------
(* The simple actions, each run once on every input. *)

\* SpeakTime.run, lines 94-96: the time is read and to_str applied
SpeakTimeRun ==
    /\ timeOut = NoTime
    /\ timeOut' = to_str(timeIn)
    /\ UNCHANGED <<timeIn, volIn, volOut>>
    /\ UNCHANGED podcastVars

InitTime == InitPodcast /\ InitVolumeIdle /\ timeIn \in DateTimes /\ timeOut = NoTime

NextTime == SpeakTimeRun

SpecTime == InitTime /\ [][NextTime]_vars

\* VolumeControl.run, lines 170-179
VolumeRun ==
    /\ ~volOut.done
    /\ volOut' = VolumeControl_run(volIn)
    /\ UNCHANGED <<volIn, timeIn, timeOut>>
    /\ UNCHANGED podcastVars

InitVolume == InitPodcast /\ InitTimeIdle /\ volIn \in VolumeInputs /\ volOut = NoVolume

NextVolume == VolumeRun

SpecVolume == InitVolume /\ [][NextVolume]_vars

TypeOK ==
    /\ podcastState \in States
    /\ playerStatus \in PlayerStates
    /\ playerMedia \in BOOLEAN
    /\ op \in {"none", "stop", "pause", "resume", "name", "button"}
    /\ number_of_podcasts \in -1..MaxEntries
    /\ podcast_number \in -1..MaxEntries
    /\ podcast_url \in Hrefs \cup {None, "unset"}
    /\ engineState \in {-1} \cup EngineStates
    /\ pre \in States
    /\ says \in 0..1
    /\ exc \in {"none", "IndexError", "TypeError", "NameError"}
    /\ hread \in States
    /\ Len(calls) <= 3
    /\ Len(hcalls) <= 1

----------------------------------------------------------------------------
(* Properties. *)

\* A run / wait_for_button call of the dispatch caller has finished.
RunDone(o) == pc = "idle" /\ op = o

\* The edges of the documented state machine.
Edges ==
    { <<"stopped", "starting">>, <<"starting", "playing">>,
      <<"playing", "paused">>,   <<"paused", "playing">>,
      <<"playing", "stopped">>,  <<"paused", "stopped">> }

\* C1: the controller starts in stopped, and every change of podcastState,
\* by any run command, stop() or hook, follows an edge of the documented
\* state machine (stopped->starting, starting->playing, playing<->paused,
\* playing->stopped, paused->stopped).
C1_OnlyDocumentedEdges ==
    [][podcastState' # podcastState => <<podcastState, podcastState'>> \in Edges]_vars

\* C2: when the engine-state code read after the start delay is not one of
\* the playing codes, run for a known name speaks an error and ends in
\* stopped; it ends in playing only when the code is a playing code.
C2_EngineFailureStops ==
    (RunDone("name") /\ engineState # -1) =>
        /\ engineState \notin playing => (says >= 1 /\ podcastState = "stopped")
        /\ podcastState = "playing" => engineState \in playing

\* C3: from every prior state, run with a name that is not in the catalog
\* ends in stopped, has called say exactly once, and no exception left it.
C3_UnknownNameStoppedOneSay ==
    (RunDone("name") /\ KeyError(voice_command)) =>
        (podcastState = "stopped" /\ says = 1 /\ exc = "none")

C3_Witness ==
    /\ RunDone("name") /\ KeyError(voice_command)
    /\ pre = "playing" /\ says = 1 /\ podcastState = "stopped"

\* C4 as claimed: run with a name that is not in the catalog leaves
\* podcastState as it was before the call, for every prior state.
C4_UnknownNameNoStateChange ==
    (RunDone("name") /\ KeyError(voice_command)) => podcastState = pre

\* C4 as amended: run with a name that is not in the catalog leaves
\* podcastState as it was only when the prior state is stopped; from every
\* other prior state (starting, playing, paused) it changes it to stopped.
C4_UnknownNameResetsState ==
    (RunDone("name") /\ KeyError(voice_command)) =>
        /\ pre = "stopped" => podcastState = pre
        /\ pre # "stopped" => (podcastState # pre /\ podcastState = "stopped")

C4_Witness ==
    /\ RunDone("name") /\ KeyError(voice_command)
    /\ pre = "paused" /\ podcastState = "stopped"

\* C5: when the lookup succeeds but the feed is empty, or the chosen
\* episode has no link with the audio marker, run speaks an apology, ends
\* in stopped, and no exception leaves it.
C5_NoPlayableLinkApology ==
    ( /\ RunDone("name")
      /\ number_of_podcasts # -1
      /\ \/ number_of_podcasts = 0
         \/ (podcast_number < number_of_podcasts /\ podcast_url = None) ) =>
        (says >= 1 /\ podcastState = "stopped" /\ exc = "none")

\* C6: run("podcast stop") (or "off") entered in state playing ends in
\* stopped and has issued exactly one stop call on the player and no other
\* player call.
C6_StopFromPlaying ==
    (RunDone("stop") /\ pre = "playing") =>
        (podcastState = "stopped" /\ calls = <<"stop">>)

C6_Witness ==
    /\ RunDone("stop") /\ pre = "playing" /\ started
    /\ podcastState = "stopped" /\ calls = <<"stop">>

\* C7: as long as no run with a known name has reached the player, the
\* pause and resume hooks issue no player call.
C7_HooksIdleWithoutSession ==
    ~started => hcalls = <<>>

\* C8: run with pause, resume or stop before any playback was started, the
\* controller still in its initial stopped state, leaves podcastState as it
\* was.
C8_NoSessionNoStateChange ==
    ( /\ pc = "idle" /\ op \in {"pause", "resume", "stop"}
      /\ ~started /\ pre = "stopped" ) => podcastState = pre

\* C9: the pause hook issues a player pause call exactly when the state it
\* finds is playing, and the resume hook a player play call exactly when
\* the state it finds is playing; in state paused neither issues a call.
C9_HooksActOnlyWhenPlaying ==
    (hpc = "idle" /\ hop # "none") =>
        /\ hop = "pause" =>
             hcalls = (IF hread = "playing" THEN <<"pause">> ELSE <<>>)
        /\ hop = "resume" =>
             hcalls = (IF hread = "playing" THEN <<"play">> ELSE <<>>)

C9_Witness ==
    /\ RunDone("pause") /\ started /\ pre = "playing" /\ podcastState = "paused"
    /\ hpc = "idle" /\ hop = "resume" /\ hread = "paused" /\ hcalls = <<>>

\* A run("podcast stop") and a pause hook that overlapped, the first of
\* them entered in state playing, have both finished.
RaceDone ==
    /\ pc = "idle" /\ op = "stop"
    /\ hpc = "idle" /\ hop = "pause"
    /\ overlap /\ raceFrom = "playing"

\* C10: after every interleaving of run("podcast stop") with the pause
\* hook, begun in state playing, podcastState is one of the two target
\* states stopped and paused.
C10_RaceEndsInTargetState ==
    RaceDone => podcastState \in {"stopped", "paused"}

C10_Witness ==
    RaceDone /\ hcalls = <<"pause">> /\ calls = <<"stop">> /\ podcastState = "stopped"

\* C11: in random mode with a non-empty feed of K entries the episode index
\* run chooses satisfies 0 <= index < K, and with K = 1 it is 0.
C11_RandomIndexInRange ==
    (random_podcast /\ number_of_podcasts >= 1 /\ podcast_number # -1) =>
        /\ 0 <= podcast_number /\ podcast_number < number_of_podcasts
        /\ number_of_podcasts = 1 => podcast_number = 0

\* C16: the pause hook's read of podcastState and its player pause call are
\* mutually exclusive with run's state transitions: the hook never issues
\* the player pause call after an overlapping run("podcast stop") has set
\* podcastState to stopped.
C16_NoPauseAfterStop ==
    [][ ( /\ hpc = "test" /\ hop = "pause" /\ hcalls' = <<"pause">>
          /\ overlap /\ op = "stop" /\ pc = "idle" )
        => podcastState # "stopped" ]_vars

\* C18: whenever podcastState is stopped between operations, the player is
\* not playing.
C18_StoppedMeansPlayerNotPlaying ==
    (pc = "idle" /\ hpc = "idle" /\ podcastState = "stopped") =>
        playerStatus # "Playing"

\* C19: starting is transient inside run: whenever the dispatch caller has
\* finished its operation, by a return or by an exception, podcastState is
\* stopped, playing or paused and not starting.
C19_StartingIsTransient ==
    pc = "idle" => podcastState \in {"stopped", "playing", "paused"}

\* C17: while wait_for_button polls, it has issued no player call and has
\* not changed podcastState; it leaves the polling loop only into stop(),
\* and when it has returned it has issued exactly one player stop call and
\* podcastState is stopped.
C17_ButtonStopsThroughStop ==
    /\ [](pc = "poll" => (calls = <<>> /\ podcastState = pre))
    /\ [][(pc = "poll" /\ pc' # "poll") => pc' = "stop_call"]_vars
    /\ [](RunDone("button") => (calls = <<"stop">> /\ podcastState = "stopped"))

C17_Witness ==
    /\ RunDone("button") /\ pre = "playing" /\ started
    /\ calls = <<"stop">> /\ podcastState = "stopped" /\ playerStatus = "Stopped"

----------------------------------------------------------------------------
(* Properties of the simple actions. *)

\* C12: for every hour in 0..23 and minute in 0..59, with r = (minute + 2)
\* div 5: when r > 6 to_str uses 12 - r and the hour (hour + 1) mod 24 with
\* the "to" phrasing, otherwise r and the unchanged hour with the "past"
\* phrasing; hours above 12 have 12 subtracted; a final r of 0 yields
\* "It is midnight." for hour 0 and the o'clock phrase otherwise; and the
\* hour-word index stays in 0..12 and the minute-word index in 0..5.
C12_TimePhraseRule ==
    timeOut # NoTime =>
        LET r == (timeIn.minute + 2) \div 5
            final == IF r > 6 THEN 12 - r ELSE r
            h24 == IF r > 6 THEN (timeIn.hour + 1) % 24 ELSE timeIn.hour
            h == IF h24 > 12 THEN h24 - 12 ELSE h24
        IN  /\ (final = 0 /\ h = 0) => timeOut.phrase = <<"It is midnight.">>
            /\ (final = 0 /\ h # 0) =>
                 timeOut.phrase = <<"It is ", HRS_TEXT[h + 1], " o'clock.">>
            /\ (final # 0 /\ r > 6) =>
                 timeOut.phrase = <<"It is ", MINS_TEXT[final], " to ", HRS_TEXT[h + 1], ".">>
            /\ (final # 0 /\ r <= 6) =>
                 timeOut.phrase = <<"It is ", MINS_TEXT[final], " past ", HRS_TEXT[h + 1], ".">>
            /\ timeOut.hrs # -1 => timeOut.hrs \in 0..12
            /\ timeOut.mins # -1 => timeOut.mins \in 0..5
            /\ \A i \in DOMAIN timeOut.phrase : timeOut.phrase[i] # "IndexError"

C12_Witness ==
    /\ timeIn = [hour |-> 23, minute |-> 40]
    /\ timeOut = [phrase |-> <<"It is ", "twenty", " to ", "midnight", ".">>,
                  hrs |-> 0, mins |-> 3]

\* C13 as claimed: to_str returns "It is five to five." for hour 4, minute
\* 58, "It is midnight." for hour 0, minute 0, and "It is six o'clock." for
\* hour 6, minute 0.
C13_TimeExamples ==
    timeOut # NoTime =>
        /\ timeIn = [hour |-> 4, minute |-> 58] =>
             timeOut.phrase = <<"It is ", "five", " to ", "five", ".">>
        /\ timeIn = [hour |-> 0, minute |-> 0] =>
             timeOut.phrase = <<"It is midnight.">>
        /\ timeIn = [hour |-> 6, minute |-> 0] =>
             timeOut.phrase = <<"It is ", "six", " o'clock.">>

\* C13 as amended: to_str returns "It is five o'clock." for hour 4, minute
\* 58, "It is midnight." for hour 0, minute 0, and "It is six o'clock." for
\* hour 6, minute 0.
C13_TimeExamplesAmended ==
    timeOut # NoTime =>
        /\ timeIn = [hour |-> 4, minute |-> 58] =>
             timeOut.phrase = <<"It is ", "five", " o'clock.">>
        /\ timeIn = [hour |-> 0, minute |-> 0] =>
             timeOut.phrase = <<"It is midnight.">>
        /\ timeIn = [hour |-> 6, minute |-> 0] =>
             timeOut.phrase = <<"It is ", "six", " o'clock.">>

C13_Witness ==
    /\ timeIn = [hour |-> 4, minute |-> 58]
    /\ timeOut.phrase = <<"It is ", "five", " o'clock.">>

\* C14: for every parsed current volume in 0..100 and every configured
\* change (+10, -10, +100) the volume VolumeControl.run sets and says is
\* max(0, min(100, current + change)), so within 0..100; with current 95
\* and change +10 it is 100.
C14_VolumeClamped ==
    (volOut.done /\ volOut.parsed /\ volOut.current \in 0..100) =>
        LET sum == volOut.current + volIn.change
            want == IF sum > 100 THEN 100 ELSE IF sum < 0 THEN 0 ELSE sum
        IN  /\ volOut.set_called /\ volOut.says = 1
            /\ volOut.vol = want /\ volOut.spoken = want
            /\ volOut.vol \in 0..100
            /\ (volOut.current = 95 /\ volIn.change = 10) => volOut.vol = 100

C14_Witness ==
    /\ volOut.done /\ volIn.res = <<"9", "5">> /\ volIn.change = 10
    /\ volOut.current = 95 /\ volOut.vol = 100 /\ volOut.spoken = 100

\* C15: in VolumeControl.run, if the volume query output cannot be parsed
\* as an integer, or the volume query command or the volume set command
\* fails, say is not called and no exception leaves run.
C15_VolumeErrorsSwallowed ==
    ( /\ volOut.done
      /\ \/ volIn.status # 0
         \/ (volIn.status = 0 /\ ValueError(volIn.res))
         \/ (volOut.set_called /\ volIn.set_status # 0) ) =>
        (volOut.says = 0 /\ volOut.exc = "none")

====
